---- MODULE Spec2Model ----
(***************************************************************************)
(* Order reconciliation scripts: a CSV export of orders is loaded,         *)
(* normalised by location, aggregated per location and status class, and   *)
(* compared with reference figures of the reporting platform.              *)
(*                                                                         *)
(*   cleaned_csv_analysis.py        analyze_cleaned_csv()                   *)
(*   platform_vs_csv_comparison.py  main()                                  *)
(*   comprehensive_analysis.py      the module's statements                 *)
(*   csv_analysis.py                the module's statements                 *)
(*   drexel_may_analysis.py         analyze_drexel_may_data()               *)
(*   restore_routes.py              the module's statements                 *)
(*                                                                         *)
(* Spec runs every script but csv_analysis on exports whose amount cells   *)
(* are numbers; SpecDirty runs the scripts that read an export,            *)
(* csv_analysis among them, on exports with cells that are no number.      *)
(*                                                                         *)
(* Money is counted in cents (10.00 is 1000), so the scripts' 0.01 is 1.   *)
(* A missing value (pandas NaN) of a numeric column is the empty tuple and *)
(* a present value v is <<v>>; a missing location is the string "NaN",     *)
(* which read_csv reads as missing.                                        *)
(***************************************************************************)
EXTENDS Integers, Sequences, FiniteSets, TLC

VARIABLES
    script,              \* which script this run executes
    pc,                  \* the statement the run has reached
    csv_file,            \* the rows of the CSV export on disk
    df,                  \* cleaned_csv_analysis: the data frame
    processing_orders,   \* cleaned_csv_analysis: rows with Status == 'Processing'
    refunded_orders,     \* cleaned_csv_analysis: rows with Status == 'Refunded'
    total_rows,          \* cleaned_csv_analysis: the printed "Total rows in CSV"
    platform_data,       \* the reference table of either script
    results,             \* cleaned_csv_analysis: per-location aggregate and reference
    matches,             \* cleaned_csv_analysis: the per-location, per-field Match lines
    totals,              \* cleaned_csv_analysis: the TOTALS COMPARISON figures
    total_discrepancies, \* the discrepancy counter of either script
    verdict,             \* the final line printed about the whole run
    csv_data,            \* platform_vs_csv_comparison: the CSV-side table
    labels,              \* platform_vs_csv_comparison: the line printed per CSV location
    platform_only,       \* platform_vs_csv_comparison: locations printed "(Platform only)"
    perfect_matches,     \* platform_vs_csv_comparison: the match counter
    unique_locations,    \* comprehensive_analysis: df_clean['Location'].unique()
    cottman_orders_clean, \* csv_analysis: the Cottman rows with Total Amount >= 0
    csv_order_ids,       \* csv_analysis: set(cottman_orders_clean['Order ID'].astype(str))
    missing_in_csv,      \* csv_analysis: platform_order_ids - csv_order_ids
    extra_in_csv,        \* csv_analysis: csv_order_ids - platform_order_ids
    drexel_csv_orders,   \* drexel_may_analysis: the orders of the literal
    response,            \* drexel_may_analysis: what requests.get() came back with
    requests_sent,       \* drexel_may_analysis: the calls of requests.get() so far
    printed,             \* drexel_may_analysis, restore_routes: the lines printed
    exit_code            \* the exit status of the process, None while it runs

\* comprehensive_analysis keeps df_clean in df, the figures printed for each
\* location in results and the TOTAL CSV SUMMARY in totals.
cleaned_vars == <<csv_file, df, processing_orders, refunded_orders, total_rows,
                  results, matches, totals, unique_locations>>

pvc_vars == <<csv_data, labels, platform_only, perfect_matches>>

\* csv_analysis keeps df in df and its metrics in results.
cottman_vars == <<cottman_orders_clean, csv_order_ids, missing_in_csv, extra_in_csv>>

drexel_vars == <<drexel_csv_orders, response, requests_sent, printed>>

vars == <<script, pc, platform_data, total_discrepancies, verdict,
          cleaned_vars, pvc_vars, cottman_vars, drexel_vars, exit_code>>

---------------------------------------------------------------------------
(* Bounds and the input alphabet *)

MaxRows == 3

Cottman == "2210 Cottman Ave, Philadelphia, PA"
Ridge == "6151 Ridge Ave, Philadelphia, PA"
Wilmington == "414 North Union St, Wilmington, DE"
NaNLocation == "NaN"

Processing == "Processing"
Refunded == "Refunded"
Cancelled == "Cancelled"

\* The cells a row of the export may hold, as sequences so that rows are ranked.
RawLocations == <<NaNLocation, Cottman, Ridge, Wilmington>>
RawStatuses == <<Processing, Refunded, Cancelled>>
\* <<Total Amount, Total (- Refund)>> as the text of the two cells.
RawAmounts == << <<"10.00", "10.00">>, <<"20.00", "-5.00">> >>

IndexOf(seq, x) == CHOOSE i \in DOMAIN seq : seq[i] = x

RawRows ==
    { [Location |-> l, Status |-> s, Total_Amount |-> a[1], Total_Refund |-> a[2]] :
        l \in {RawLocations[i] : i \in DOMAIN RawLocations},
        s \in {RawStatuses[i] : i \in DOMAIN RawStatuses},
        a \in {RawAmounts[i] : i \in DOMAIN RawAmounts} }

RowRank(r) ==
    (IndexOf(RawLocations, r.Location) * Len(RawStatuses)
        + IndexOf(RawStatuses, r.Status)) * Len(RawAmounts)
        + IndexOf(RawAmounts, <<r.Total_Amount, r.Total_Refund>>)

\* The exports of at most MaxRows rows. No statement of the script depends on
\* the order of the rows, so one export stands for all its permutations.
CsvFiles ==
    { t \in UNION { [1..n -> RawRows] : n \in 0..MaxRows } :
        \A i \in 1..(Len(t) - 1) : RowRank(t[i]) <= RowRank(t[i + 1]) }

\* Exports with cells that are no number: "$10.00" in an amount column.
DirtyLocations == <<Cottman, Ridge>>
DirtyStatuses == <<Processing, Refunded>>
DirtyAmounts ==
    << <<"10.00", "10.00">>, <<"$10.00", "10.00">>, <<"20.00", "$10.00">>,
       <<"20.00", "-5.00">> >>

DirtyRows ==
    { [Location |-> l, Status |-> s, Total_Amount |-> a[1], Total_Refund |-> a[2]] :
        l \in {DirtyLocations[i] : i \in DOMAIN DirtyLocations},
        s \in {DirtyStatuses[i] : i \in DOMAIN DirtyStatuses},
        a \in {DirtyAmounts[i] : i \in DOMAIN DirtyAmounts} }

DirtyRowRank(r) ==
    (IndexOf(DirtyLocations, r.Location) * Len(DirtyStatuses)
        + IndexOf(DirtyStatuses, r.Status)) * Len(DirtyAmounts)
        + IndexOf(DirtyAmounts, <<r.Total_Amount, r.Total_Refund>>)

DirtyCsvFiles ==
    { t \in UNION { [1..n -> DirtyRows] : n \in 0..MaxRows } :
        \A i \in 1..(Len(t) - 1) : DirtyRowRank(t[i]) <= DirtyRowRank(t[i + 1]) }

---------------------------------------------------------------------------
(* pandas *)

NaN == <<>>

\* The cents a cell's text stands for.
Cents == ("10.00" :> 1000) @@ ("20.00" :> 2000) @@ ("-5.00" :> (0 - 500))

\* Mutant: the currency sign is stripped before the cell is parsed.
to_numeric_StripCurrency(text) ==
    IF text \in DOMAIN Cents THEN <<Cents[text]>>
    ELSE IF text = "$10.00" THEN <<1000>> ELSE <<>>

\* pd.to_numeric(column, errors='coerce') on one cell
to_numeric(text) == IF text \in DOMAIN Cents THEN <<Cents[text]>> ELSE NaN

Column(frame, name) == [i \in DOMAIN frame |-> frame[i][name]]

\* Series.sum(): missing values are skipped, the empty sum is 0
RECURSIVE Sum(_)
Sum(column) ==
    IF column = <<>> THEN 0
    ELSE (IF Head(column) = NaN THEN 0 ELSE Head(column)[1]) + Sum(Tail(column))

Abs(x) == IF x < 0 THEN 0 - x ELSE x

Range(f) == {f[k] : k \in DOMAIN f}

Where(frame, name, value) == SelectSeq(frame, LAMBDA r : r[name] = value)

---------------------------------------------------------------------------
(* cleaned_csv_analysis.py *)

\* 0.01, in cents
Tolerance == 1

location_mapping == (Cottman :> Cottman) @@ (Ridge :> Ridge)

\* location_mapping.values(), in the order of the literal
location_values == <<Cottman, Ridge>>

Stats(sales, orders, refunds, refunded) ==
    [processing_sales |-> sales, processing_orders |-> orders,
     refunds |-> refunds, refunded_orders |-> refunded]

\* The reference figures a location of platform_data may hold.
PlatformStats ==
    { Stats(0, 0, 0, 0), Stats(1000, 1, 0, 0), Stats(1001, 1, 0, 0),
      Stats(1002, 1, 0, 0), Stats(1000, 2, 0, 0), Stats(0, 0, 500, 1) }

\* platform_data has one entry for every value of location_mapping.
PlatformTables ==
    { t \in [Range(location_mapping) -> PlatformStats] :
        t[Ridge] \in {Stats(0, 0, 0, 0), Stats(1000, 1, 0, 0)} }

CoerceRow(r) ==
    [Location |-> r.Location, Status |-> r.Status,
     Total_Amount |-> to_numeric(r.Total_Amount),
     Total_Refund |-> to_numeric(r.Total_Refund)]

\* df.dropna(subset=['Location'])
dropna(frame) == SelectSeq(frame, LAMBDA r : r.Location # NaNLocation)

\* df[df['Location'].isin(location_mapping.keys())], then .map(location_mapping)
KnownLocation(r) == r.Location \in DOMAIN location_mapping

MapLocation(r) == [r EXCEPT !.Location = location_mapping[r.Location]]

\* Mutant: the isin filter is left out and only the alias keys are renamed.
FilterKnownLocations_NoFilter(frame) ==
    [i \in DOMAIN frame |->
        IF KnownLocation(frame[i]) THEN MapLocation(frame[i]) ELSE frame[i]]

FilterKnownLocations(frame) ==
    LET known == SelectSeq(frame, KnownLocation)
    IN  [i \in DOMAIN known |-> MapLocation(known[i])]

\* Mutant: the refunded rows are not restricted to the location.
LocationResult_AllRefunded(proc, refd, platform, location) ==
    LET location_processing == Where(proc, "Location", location)
        location_refunded == refd
    IN  [csv_processing_sales |-> Sum(Column(location_processing, "Total_Amount")),
         csv_processing_orders |-> Len(location_processing),
         csv_refunds |-> Abs(Sum(Column(location_refunded, "Total_Refund"))),
         csv_refunded_orders |-> Len(location_refunded),
         platform_processing_sales |-> platform[location].processing_sales,
         platform_processing_orders |-> platform[location].processing_orders,
         platform_refunds |-> platform[location].refunds,
         platform_refunded_orders |-> platform[location].refunded_orders]

\* Mutant: the processing sales are summed over the Total (- Refund) column.
LocationResult_NetSales(proc, refd, platform, location) ==
    LET location_processing == Where(proc, "Location", location)
        location_refunded == Where(refd, "Location", location)
    IN  [csv_processing_sales |-> Sum(Column(location_processing, "Total_Refund")),
         csv_processing_orders |-> Len(location_processing),
         csv_refunds |-> Abs(Sum(Column(location_refunded, "Total_Refund"))),
         csv_refunded_orders |-> Len(location_refunded),
         platform_processing_sales |-> platform[location].processing_sales,
         platform_processing_orders |-> platform[location].processing_orders,
         platform_refunds |-> platform[location].refunds,
         platform_refunded_orders |-> platform[location].refunded_orders]

\* Mutant: the refunds are the signed sum, without abs().
LocationResult_SignedRefunds(proc, refd, platform, location) ==
    LET location_processing == Where(proc, "Location", location)
        location_refunded == Where(refd, "Location", location)
    IN  [csv_processing_sales |-> Sum(Column(location_processing, "Total_Amount")),
         csv_processing_orders |-> Len(location_processing),
         csv_refunds |-> Sum(Column(location_refunded, "Total_Refund")),
         csv_refunded_orders |-> Len(location_refunded),
         platform_processing_sales |-> platform[location].processing_sales,
         platform_processing_orders |-> platform[location].processing_orders,
         platform_refunds |-> platform[location].refunds,
         platform_refunded_orders |-> platform[location].refunded_orders]

\* The body of the loop "for location in location_mapping.values()"
LocationResult(proc, refd, platform, location) ==
    LET location_processing == Where(proc, "Location", location)
        location_refunded == Where(refd, "Location", location)
    IN  [csv_processing_sales |-> Sum(Column(location_processing, "Total_Amount")),
         csv_processing_orders |-> Len(location_processing),
         csv_refunds |-> Abs(Sum(Column(location_refunded, "Total_Refund"))),
         csv_refunded_orders |-> Len(location_refunded),
         platform_processing_sales |-> platform[location].processing_sales,
         platform_processing_orders |-> platform[location].processing_orders,
         platform_refunds |-> platform[location].refunds,
         platform_refunded_orders |-> platform[location].refunded_orders]

AnalyzeByLocation(proc, refd, platform) ==
    [location \in Range(location_values) |->
        LocationResult(proc, refd, platform, location)]

\* Mutant: a difference of exactly the tolerance counts as a match.
MoneyMatch_Inclusive(a, b) == Abs(a - b) <= Tolerance

\* abs(a - b) < 0.01
MoneyMatch(a, b) == Abs(a - b) < Tolerance

CountMatch(a, b) == a = b

\* The body of the loop "for location, data in results.items()"
LocationMatches(data) ==
    [sales_diff |-> Abs(data.csv_processing_sales - data.platform_processing_sales),
     sales_match |-> MoneyMatch(data.csv_processing_sales, data.platform_processing_sales),
     orders_match |-> CountMatch(data.csv_processing_orders, data.platform_processing_orders),
     refund_diff |-> Abs(data.csv_refunds - data.platform_refunds),
     refund_match |-> MoneyMatch(data.csv_refunds, data.platform_refunds),
     refunded_orders_match |->
        CountMatch(data.csv_refunded_orders, data.platform_refunded_orders)]

HasDiscrepancy(m) ==
    ~(m.sales_match /\ m.orders_match /\ m.refund_match /\ m.refunded_orders_match)

\* total_discrepancies after the loop over the locations in `keys`
RECURSIVE CountDiscrepancies(_, _)
CountDiscrepancies(m, keys) ==
    IF keys = <<>> THEN 0
    ELSE (IF HasDiscrepancy(m[Head(keys)]) THEN 1 ELSE 0)
            + CountDiscrepancies(m, Tail(keys))

\* sum(data[field] for data in results.values())
RECURSIVE SumOver(_, _, _)
SumOver(res, field, keys) ==
    IF keys = <<>> THEN 0
    ELSE res[Head(keys)][field] + SumOver(res, field, Tail(keys))

Totals(res) ==
    [csv_total_processing_sales |-> SumOver(res, "csv_processing_sales", location_values),
     csv_total_processing_orders |-> SumOver(res, "csv_processing_orders", location_values),
     csv_total_refunds |-> SumOver(res, "csv_refunds", location_values),
     csv_total_refunded_orders |-> SumOver(res, "csv_refunded_orders", location_values)]

CleanedVerdict(n) == IF n = 0 THEN "PERFECT MATCH" ELSE "DISCREPANCIES"

None == <<>>

\* The variables of the other scripts before and while one script runs
NoCleaned ==
    /\ csv_file = <<>> /\ df = <<>>
    /\ processing_orders = <<>> /\ refunded_orders = <<>>
    /\ total_rows = 0
    /\ results = None /\ matches = None /\ totals = None
    /\ unique_locations = <<>>

NoPvc ==
    /\ csv_data = None /\ labels = None
    /\ platform_only = {} /\ perfect_matches = 0

NoCottman ==
    /\ cottman_orders_clean = <<>>
    /\ csv_order_ids = {} /\ missing_in_csv = {} /\ extra_in_csv = {}

NoDrexel ==
    /\ drexel_csv_orders = <<>>
    /\ response = None
    /\ requests_sent = 0
    /\ printed = <<>>

InitCleaned ==
    /\ script = "cleaned_csv_analysis"
    /\ pc = "read_csv"
    /\ csv_file \in CsvFiles
    /\ df = <<>>
    /\ processing_orders = <<>>
    /\ refunded_orders = <<>>
    /\ total_rows = 0
    /\ platform_data = None
    /\ results = None
    /\ matches = None
    /\ totals = None
    /\ total_discrepancies = 0
    /\ verdict = "none"
    /\ csv_data = None
    /\ labels = None
    /\ platform_only = {}
    /\ perfect_matches = 0
    /\ unique_locations = <<>>
    /\ NoCottman /\ NoDrexel
    /\ exit_code = None

\* line 11
ReadCsv ==
    /\ script = "cleaned_csv_analysis"
    /\ pc = "read_csv"
    /\ df' = csv_file
    /\ pc' = "to_numeric"
    /\ UNCHANGED <<script, csv_file, processing_orders, refunded_orders, total_rows,
                   platform_data, results, matches, totals, total_discrepancies, verdict,
                   unique_locations, pvc_vars,
                   cottman_vars, drexel_vars, exit_code>>

\* lines 16-18. The Refund Amount column is coerced too; it is only printed
\* (line 207) and no figure of the run reads it, so rows do not carry it.
ToNumeric ==
    /\ pc = "to_numeric"
    /\ df' = [i \in DOMAIN df |-> CoerceRow(df[i])]
    /\ pc' = "dropna"
    /\ UNCHANGED <<script, csv_file, processing_orders, refunded_orders, total_rows,
                   platform_data, results, matches, totals, total_discrepancies, verdict,
                   unique_locations, pvc_vars,
                   cottman_vars, drexel_vars, exit_code>>

\* line 21
DropNa ==
    /\ pc = "dropna"
    /\ df' = dropna(df)
    /\ pc' = "filter"
    /\ UNCHANGED <<script, csv_file, processing_orders, refunded_orders, total_rows,
                   platform_data, results, matches, totals, total_discrepancies, verdict,
                   unique_locations, pvc_vars,
                   cottman_vars, drexel_vars, exit_code>>

\* lines 37-38
FilterKnown ==
    /\ pc = "filter"
    /\ df' = FilterKnownLocations(df)
    /\ pc' = "split"
    /\ UNCHANGED <<script, csv_file, processing_orders, refunded_orders, total_rows,
                   platform_data, results, matches, totals, total_discrepancies, verdict,
                   unique_locations, pvc_vars,
                   cottman_vars, drexel_vars, exit_code>>

\* Mutant: every row that is not Processing is taken as refunded.
Split_RestIsRefunded ==
    /\ pc = "split"
    /\ processing_orders' = Where(df, "Status", Processing)
    /\ refunded_orders' = SelectSeq(df, LAMBDA r : r.Status # Processing)
    /\ total_rows' = Len(df)
    /\ pc' = "analyze"
    /\ UNCHANGED <<script, csv_file, df, platform_data, results, matches, totals,
                   total_discrepancies, verdict, unique_locations, pvc_vars,
                   cottman_vars, drexel_vars, exit_code>>

\* lines 41-46
Split ==
    /\ pc = "split"
    /\ processing_orders' = Where(df, "Status", Processing)
    /\ refunded_orders' = Where(df, "Status", Refunded)
    /\ total_rows' = Len(df)
    /\ pc' = "analyze"
    /\ UNCHANGED <<script, csv_file, df, platform_data, results, matches, totals,
                   total_discrepancies, verdict,
                   unique_locations, pvc_vars,
                   cottman_vars, drexel_vars, exit_code>>

\* lines 50-113
Analyze ==
    /\ pc = "analyze"
    /\ \E p \in PlatformTables :
        /\ platform_data' = p
        /\ results' = AnalyzeByLocation(processing_orders, refunded_orders, p)
    /\ pc' = "compare"
    /\ UNCHANGED <<script, csv_file, df, processing_orders, refunded_orders, total_rows,
                   matches, totals, total_discrepancies, verdict, unique_locations,
                   pvc_vars,
                   cottman_vars, drexel_vars, exit_code>>

\* lines 119-156
Compare ==
    /\ pc = "compare"
    /\ matches' = [location \in DOMAIN results |-> LocationMatches(results[location])]
    /\ total_discrepancies' = CountDiscrepancies(matches', location_values)
    /\ pc' = "summary"
    /\ UNCHANGED <<script, csv_file, df, processing_orders, refunded_orders, total_rows,
                   platform_data, results, totals, verdict,
                   unique_locations, pvc_vars,
                   cottman_vars, drexel_vars, exit_code>>

\* lines 159-201
Summary ==
    /\ pc = "summary"
    /\ totals' = Totals(results)
    /\ verdict' = CleanedVerdict(total_discrepancies)
    /\ pc' = "done"
    /\ exit_code' = 0
    /\ UNCHANGED <<script, csv_file, df, processing_orders, refunded_orders, total_rows,
                   platform_data, results, matches, total_discrepancies,
                   unique_locations, pvc_vars,
                   cottman_vars, drexel_vars>>

---------------------------------------------------------------------------
(* platform_vs_csv_comparison.py *)

Unknown == "Unknown Location"
Chestnut == "4407 Chestnut St, Philadelphia, PA"

\* The CSV location names and the platform's name for each. One identity entry
\* stands for the nine of the literal; "Unknown Location" is the one renamed key.
pvc_location_mapping == (Cottman :> Cottman) @@ (Unknown :> Chestnut)

\* The location names either table may hold, in the order the loops visit them.
pvc_locations == <<Cottman, Unknown, Chestnut, Wilmington>>

PvcStats(orders, processing, refunded, sales, refund_amount) ==
    [orders |-> orders, processing |-> processing, refunded |-> refunded,
     processing_sales |-> sales, refund_amount |-> refund_amount]

\* The figures an entry of csv_data or platform_data may hold.
PvcEntries ==
    { PvcStats(3, 2, 1, 1000, 0), PvcStats(2, 2, 0, 1000, 500),
      PvcStats(3, 2, 1, 1002, 0) }

PvcTables ==
    UNION { [keys -> PvcEntries] : keys \in SUBSET Range(pvc_locations) }

\* list(table), the keys of a dict in order
Keys(table) == SelectSeq(pvc_locations, LAMBDA l : l \in DOMAIN table)

\* location_mapping.get(csv_location, csv_location)
PlatformLocation(csv_location) ==
    IF csv_location \in DOMAIN pvc_location_mapping
    THEN pvc_location_mapping[csv_location]
    ELSE csv_location

\* The if/elif/else of lines 85-93 on the two entries of one location
PvcOutcome(csv_stats, platform_stats) ==
    LET order_diff == csv_stats.orders - platform_stats.orders
        processing_diff == csv_stats.processing - platform_stats.processing
        sales_diff == csv_stats.processing_sales - platform_stats.processing_sales
    IN  IF order_diff = 0 /\ processing_diff = 0 /\ Abs(sales_diff) < Tolerance
        THEN "PERFECT MATCH"
        ELSE IF Abs(sales_diff) < Tolerance
             THEN "SALES MATCH"
             ELSE "DISCREPANCY DETECTED"

\* The body of the loop "for csv_location, csv_stats in csv_data.items()"
PvcLabel(csv, platform, csv_location) ==
    LET platform_location == PlatformLocation(csv_location)
    IN  IF platform_location \in DOMAIN platform
        THEN PvcOutcome(csv[csv_location], platform[platform_location])
        ELSE "NOT FOUND IN PLATFORM"

PvcLabels(csv, platform) ==
    [csv_location \in DOMAIN csv |-> PvcLabel(csv, platform, csv_location)]

IsMatchLabel(label) == label \in {"PERFECT MATCH", "SALES MATCH"}

\* Mutant: the branch "NOT FOUND IN PLATFORM" increments no counter.
RECURSIVE CountLabels_SkipNotFound(_, _, _)
CountLabels_SkipNotFound(lab, keys, is_match) ==
    IF keys = <<>> THEN 0
    ELSE (IF /\ IsMatchLabel(lab[Head(keys)]) = is_match
             /\ lab[Head(keys)] # "NOT FOUND IN PLATFORM"
          THEN 1 ELSE 0)
            + CountLabels_SkipNotFound(lab, Tail(keys), is_match)

\* How often the loop over `keys` took a branch that counts as a match
\* (is_match = TRUE) or as a discrepancy (is_match = FALSE)
RECURSIVE CountLabels(_, _, _)
CountLabels(lab, keys, is_match) ==
    IF keys = <<>> THEN 0
    ELSE (IF IsMatchLabel(lab[Head(keys)]) = is_match THEN 1 ELSE 0)
            + CountLabels(lab, Tail(keys), is_match)

\* Mutant: line 105 without "and platform_location not in csv_data".
IsPlatformOnly_IgnoreCsv(csv, platform_location) ==
    platform_location \notin Range(pvc_location_mapping)

\* The condition of line 105
IsPlatformOnly(csv, platform_location) ==
    LET csv_mapped_locations == Range(pvc_location_mapping)
    IN  /\ platform_location \notin csv_mapped_locations
        /\ platform_location \notin DOMAIN csv

PlatformOnly(csv, platform) ==
    {platform_location \in DOMAIN platform : IsPlatformOnly(csv, platform_location)}

PvcVerdict(n) ==
    IF n = 0 THEN "PERFECT ALIGNMENT"
    ELSE IF n <= 2 THEN "EXCELLENT ALIGNMENT"
    ELSE "INVESTIGATION NEEDED"

InitPlatformVsCsv ==
    /\ script = "platform_vs_csv_comparison"
    /\ pc = "csv_locations"
    /\ csv_data \in PvcTables
    /\ platform_data \in PvcTables
    /\ labels = None
    /\ platform_only = {}
    /\ perfect_matches = 0
    /\ total_discrepancies = 0
    /\ verdict = "none"
    /\ csv_file = <<>>
    /\ df = <<>>
    /\ processing_orders = <<>>
    /\ refunded_orders = <<>>
    /\ total_rows = 0
    /\ results = None
    /\ matches = None
    /\ totals = None
    /\ unique_locations = <<>>
    /\ NoCottman /\ NoDrexel
    /\ exit_code = None

\* lines 58-99
CsvLocations ==
    /\ pc = "csv_locations"
    /\ labels' = PvcLabels(csv_data, platform_data)
    /\ perfect_matches' = CountLabels(labels', Keys(csv_data), TRUE)
    /\ total_discrepancies' = CountLabels(labels', Keys(csv_data), FALSE)
    /\ pc' = "platform_only"
    /\ UNCHANGED <<script, platform_data, verdict, cleaned_vars, csv_data, platform_only,
                   cottman_vars, drexel_vars, exit_code>>

\* lines 102-108
PlatformOnlyLocations ==
    /\ pc = "platform_only"
    /\ platform_only' = PlatformOnly(csv_data, platform_data)
    /\ total_discrepancies' = total_discrepancies + Cardinality(platform_only')
    /\ pc' = "results"
    /\ UNCHANGED <<script, platform_data, verdict, cleaned_vars, csv_data, labels,
                   perfect_matches,
                   cottman_vars, drexel_vars, exit_code>>

\* lines 136-145
AnalysisResults ==
    /\ pc = "results"
    /\ verdict' = PvcVerdict(total_discrepancies)
    /\ pc' = "done"
    /\ exit_code' = 0
    /\ UNCHANGED <<script, platform_data, total_discrepancies, cleaned_vars, pvc_vars,
                   cottman_vars, drexel_vars>>

---------------------------------------------------------------------------
(* comprehensive_analysis.py *)

\* Lines 11-12; the Refund Amount column is read by no later statement.
CleanRow(r) ==
    [Location |-> r.Location, Status |-> r.Status,
     Total_Amount |-> to_numeric(r.Total_Amount),
     Total_Refund |-> r.Total_Refund]

\* Series.unique(): the values in the order of their first appearance, the
\* missing value among them
RECURSIVE Unique(_)
Unique(column) ==
    IF column = <<>> THEN <<>>
    ELSE LET front == Unique(SubSeq(column, 1, Len(column) - 1))
             last == column[Len(column)]
         IN  IF last \in Range(front) THEN front ELSE Append(front, last)

\* Series.value_counts()
ValueCounts(column) ==
    [value \in Range(column) |-> Cardinality({i \in DOMAIN column : column[i] = value})]

\* Mutant: the rows of the missing location are selected with ==, which no
\* missing value satisfies.
LocationMetrics_NaNByEquality(frame, location) ==
    LET location_orders ==
            IF location = NaNLocation
            THEN <<>>
            ELSE Where(frame, "Location", location)
        processing == Where(location_orders, "Status", Processing)
        refunded == Where(location_orders, "Status", Refunded)
    IN  [location_name |-> IF location = NaNLocation THEN "UNKNOWN LOCATION" ELSE location,
         total_orders |-> Len(location_orders),
         processing_orders |-> Len(processing),
         refunded_orders |-> Len(refunded),
         processing_sales |-> Sum(Column(processing, "Total_Amount")),
         refund_amount |-> Sum(Column(refunded, "Total_Amount")),
         status_breakdown |-> ValueCounts(Column(location_orders, "Status"))]

\* The body of the loop "for location in unique_locations": lines 29-45
LocationMetrics(frame, location) ==
    LET location_orders ==
            IF location = NaNLocation
            THEN SelectSeq(frame, LAMBDA r : r.Location = NaNLocation)
            ELSE Where(frame, "Location", location)
        processing == Where(location_orders, "Status", Processing)
        refunded == Where(location_orders, "Status", Refunded)
    IN  [location_name |-> IF location = NaNLocation THEN "UNKNOWN LOCATION" ELSE location,
         total_orders |-> Len(location_orders),
         processing_orders |-> Len(processing),
         refunded_orders |-> Len(refunded),
         processing_sales |-> Sum(Column(processing, "Total_Amount")),
         refund_amount |-> Sum(Column(refunded, "Total_Amount")),
         status_breakdown |-> ValueCounts(Column(location_orders, "Status"))]

\* total_csv_sales, total_csv_orders and total_csv_refunds after the loop
RECURSIVE RunTotals(_, _)
RunTotals(frame, locations) ==
    IF locations = <<>>
    THEN [total_csv_sales |-> 0, total_csv_orders |-> 0, total_csv_refunds |-> 0]
    ELSE LET before == RunTotals(frame, SubSeq(locations, 1, Len(locations) - 1))
             metrics == LocationMetrics(frame, locations[Len(locations)])
         IN  [total_csv_sales |-> before.total_csv_sales + metrics.processing_sales,
              total_csv_orders |-> before.total_csv_orders + metrics.total_orders,
              total_csv_refunds |-> before.total_csv_refunds + metrics.refund_amount]

InitComprehensive ==
    /\ script = "comprehensive_analysis"
    /\ pc = "load"
    /\ csv_file \in CsvFiles
    /\ df = <<>>
    /\ unique_locations = <<>>
    /\ results = None
    /\ totals = None
    /\ processing_orders = <<>>
    /\ refunded_orders = <<>>
    /\ total_rows = 0
    /\ platform_data = None
    /\ matches = None
    /\ total_discrepancies = 0
    /\ verdict = "none"
    /\ csv_data = None
    /\ labels = None
    /\ platform_only = {}
    /\ perfect_matches = 0
    /\ NoCottman /\ NoDrexel
    /\ exit_code = None

\* lines 5-12
LoadAndClean ==
    /\ pc = "load"
    /\ df' = [i \in DOMAIN csv_file |-> CleanRow(csv_file[i])]
    /\ pc' = "unique"
    /\ UNCHANGED <<script, csv_file, processing_orders, refunded_orders, total_rows,
                   platform_data, results, matches, totals, total_discrepancies, verdict,
                   unique_locations, pvc_vars,
                   cottman_vars, drexel_vars, exit_code>>

\* line 15
UniqueLocations ==
    /\ pc = "unique"
    /\ unique_locations' = Unique(Column(df, "Location"))
    /\ pc' = "locations"
    /\ UNCHANGED <<script, csv_file, df, processing_orders, refunded_orders, total_rows,
                   platform_data, results, matches, totals, total_discrepancies, verdict,
                   pvc_vars,
                   cottman_vars, drexel_vars, exit_code>>

\* lines 23-75
AnalyzeLocations ==
    /\ pc = "locations"
    /\ results' = [location \in Range(unique_locations) |-> LocationMetrics(df, location)]
    /\ totals' = RunTotals(df, unique_locations)
    /\ pc' = "finished"
    /\ exit_code' = 0
    /\ UNCHANGED <<script, csv_file, df, processing_orders, refunded_orders, total_rows,
                   platform_data, matches, total_discrepancies, verdict,
                   unique_locations, pvc_vars,
                   cottman_vars, drexel_vars>>

---------------------------------------------------------------------------
(* csv_analysis.py *)

CottmanSuite == "2210 Cottman Ave, Philadelphia, PA 19149"

\* The locations of the exports that contain the text of line 13
CottmanNames == {Cottman, CottmanSuite}

\* The cells of a row of the export csv_analysis reads
OrderIds == <<26004, 99999>>
OrderLocations == <<NaNLocation, Ridge, Cottman, CottmanSuite>>
OrderStatuses == <<Processing, Refunded>>
\* <<Total Amount, Refund Amount, Total (- Refund)>> as the text of the cells
OrderAmounts ==
    << <<"20.00", "10.00", "10.00">>, <<"-5.00", "", "-5.00">>,
       <<"$10.00", "10.00", "10.00">> >>

\* Every row of the exact location name; of the other locations, the rows of
\* one order ID and one status.
OrderRows ==
    { r \in { [Order_ID |-> id, Location |-> l, Status |-> s, Total_Amount |-> a[1],
               Refund_Amount |-> a[2], Total_Refund |-> a[3]] :
                id \in {OrderIds[i] : i \in DOMAIN OrderIds},
                l \in {OrderLocations[i] : i \in DOMAIN OrderLocations},
                s \in {OrderStatuses[i] : i \in DOMAIN OrderStatuses},
                a \in {OrderAmounts[i] : i \in DOMAIN OrderAmounts} } :
        r.Location = Cottman \/ (r.Order_ID = 26004 /\ r.Status = Processing) }

OrderRowRank(r) ==
    ((IndexOf(OrderIds, r.Order_ID) * Len(OrderLocations)
        + IndexOf(OrderLocations, r.Location)) * Len(OrderStatuses)
        + IndexOf(OrderStatuses, r.Status)) * Len(OrderAmounts)
        + IndexOf(OrderAmounts, <<r.Total_Amount, r.Refund_Amount, r.Total_Refund>>)

\* The exports of at most MaxRows rows, one for all its permutations
OrderCsvFiles ==
    UNION { { t \in [1..n -> OrderRows] :
                \A i \in 1..(n - 1) : OrderRowRank(t[i]) <= OrderRowRank(t[i + 1]) } :
            n \in 0..MaxRows }

\* Series.fillna(value) on one cell
fillna(cell, value) == IF cell = NaN THEN <<value>> ELSE cell

\* lines 8-10
CleanOrderRow(r) ==
    [Order_ID |-> r.Order_ID, Location |-> r.Location, Status |-> r.Status,
     Total_Amount |-> to_numeric(r.Total_Amount),
     Refund_Amount |-> fillna(to_numeric(r.Refund_Amount), 0),
     Total_Refund |-> to_numeric(r.Total_Refund)]

\* df['Location'].str.contains('2210 Cottman Ave, Philadelphia, PA', na=False)
str_contains(r) == r.Location # NaNLocation /\ r.Location \in CottmanNames

\* Mutant: the filter keeps every row whose Total Amount is not below 0.
NonNegative_NotNegative(r) == r.Total_Amount = NaN \/ r.Total_Amount[1] >= 0

\* cottman_orders['Total Amount'] >= 0, which a missing value does not satisfy
NonNegative(r) == r.Total_Amount # NaN /\ r.Total_Amount[1] >= 0

\* lines 13-16
CottmanOrdersClean(frame) == SelectSeq(SelectSeq(frame, str_contains), NonNegative)

\* lines 19-39
CottmanMetrics(clean) ==
    LET refunded == Where(clean, "Status", Refunded)
        processing == Where(clean, "Status", Processing)
    IN  [total_orders |-> Len(clean),
         total_sales |-> Sum(Column(clean, "Total_Refund")),
         refund_count |-> Len(refunded),
         refund_amount |-> Sum(Column(refunded, "Refund_Amount")),
         processing_count |-> Len(processing),
         processing_sales |-> Sum(Column(processing, "Total_Refund")),
         status_breakdown |-> ValueCounts(Column(clean, "Status"))]

\* Series.astype(str) on an Order ID
astype_str == (26004 :> "26004") @@ (99999 :> "99999")

\* Two of the order IDs of the literal of lines 55-83
platform_order_ids == {"26004", "26014"}

InitCsvAnalysis ==
    /\ script = "csv_analysis"
    /\ pc = "clean"
    /\ csv_file \in OrderCsvFiles
    /\ df = <<>>
    /\ processing_orders = <<>>
    /\ refunded_orders = <<>>
    /\ total_rows = 0
    /\ platform_data = None
    /\ results = None
    /\ matches = None
    /\ totals = None
    /\ total_discrepancies = 0
    /\ verdict = "none"
    /\ unique_locations = <<>>
    /\ NoPvc /\ NoCottman /\ NoDrexel
    /\ exit_code = None

\* lines 5-16
CleanOrders ==
    /\ pc = "clean"
    /\ df' = [i \in DOMAIN csv_file |-> CleanOrderRow(csv_file[i])]
    /\ cottman_orders_clean' = CottmanOrdersClean(df')
    /\ pc' = "metrics"
    /\ UNCHANGED <<script, csv_file, processing_orders, refunded_orders, total_rows,
                   platform_data, results, matches, totals, total_discrepancies, verdict,
                   unique_locations, pvc_vars, csv_order_ids, missing_in_csv,
                   extra_in_csv, drexel_vars, exit_code>>

\* lines 19-42
Metrics ==
    /\ pc = "metrics"
    /\ results' = CottmanMetrics(cottman_orders_clean)
    /\ pc' = "order_ids"
    /\ UNCHANGED <<script, csv_file, df, processing_orders, refunded_orders, total_rows,
                   platform_data, matches, totals, total_discrepancies, verdict,
                   unique_locations, pvc_vars, cottman_vars, drexel_vars, exit_code>>

\* lines 46-97
CompareOrderIds ==
    /\ pc = "order_ids"
    /\ csv_order_ids' =
        {astype_str[cottman_orders_clean[i].Order_ID] : i \in DOMAIN cottman_orders_clean}
    /\ missing_in_csv' = platform_order_ids \ csv_order_ids'
    /\ extra_in_csv' = csv_order_ids' \ platform_order_ids
    /\ exit_code' = 0
    /\ pc' = "exited"
    /\ UNCHANGED <<script, platform_data, total_discrepancies, verdict, cleaned_vars,
                   pvc_vars, cottman_orders_clean, drexel_vars>>

---------------------------------------------------------------------------
(* drexel_may_analysis.py *)

MaxOrders == 2

\* An order of the literal drexel_csv_orders: its "total" and "refund", in cents
DrexelOrder(total, refund) == [total |-> total, refund |-> refund]

DrexelOrderKinds == {DrexelOrder(1000, 0), DrexelOrder(2000, 500)}

DrexelOrderLists == UNION { [1..n -> DrexelOrderKinds] : n \in 0..MaxOrders }

\* sum(order[field] for order in orders)
RECURSIVE SumOrders(_, _)
SumOrders(orders, field) ==
    IF orders = <<>> THEN 0
    ELSE Head(orders)[field] + SumOrders(Tail(orders), field)

\* lines 28-31
DrexelCsvTotals(orders) ==
    [csv_total_sales |-> SumOrders(orders, "total"),
     csv_total_orders |-> Len(orders),
     csv_total_refunds |-> SumOrders(orders, "refund"),
     csv_refunded_orders |-> Len(SelectSeq(orders, LAMBDA order : order.refund > 0))]

\* A figure the body of the response leaves out
Absent == 0 - 1

EmptyObject == [key \in {} |-> 0]

Field(key, value) == IF value = Absent THEN EmptyObject ELSE key :> value

\* The JSON objects the dashboard summary may be: each figure present or not
JsonObjects ==
    { Field("totalSales", sales) @@ Field("totalOrders", orders)
            @@ Field("totalRefunds", refunds) :
        sales \in {Absent, 1000, 1001, 3000},
        orders \in {Absent, 1, 2},
        refunds \in {Absent, 0, 500} }

\* What requests.get() comes back with: the exception ConnectionError, or a
\* response with a status code and a body that is a JSON object or is not JSON
\* at all (an HTML page).
ConnectionError == [kind |-> "ConnectionError", status_code |-> 0,
                    is_json |-> FALSE, json |-> EmptyObject]

HttpResponse(status_code, is_json, json) ==
    [kind |-> "Response", status_code |-> status_code, is_json |-> is_json, json |-> json]

Responses ==
    {ConnectionError}
        \cup {HttpResponse(200, TRUE, json) : json \in JsonObjects}
        \cup {HttpResponse(status_code, FALSE, EmptyObject) : status_code \in {200, 404, 500}}

\* platform_data.get(key, 0)
Get(json, key) == IF key \in DOMAIN json THEN json[key] ELSE 0

\* lines 56-58
DrexelDiffs(csv, json) ==
    [sales_diff |-> Abs(csv.csv_total_sales - Get(json, "totalSales")),
     orders_diff |-> Abs(csv.csv_total_orders - Get(json, "totalOrders")),
     refunds_diff |-> Abs(csv.csv_total_refunds - Get(json, "totalRefunds"))]

\* The lines printed by the if/else of lines 66-77
DrexelVerdictLines(d) ==
    IF d.sales_diff < Tolerance /\ d.orders_diff = 0 /\ d.refunds_diff < Tolerance
    THEN <<"PERFECT MATCH">>
    ELSE <<"DISCREPANCIES FOUND", "DETAILED ANALYSIS">>
            \o (IF d.sales_diff >= Tolerance THEN <<"Sales mismatch">> ELSE <<>>)
            \o (IF d.orders_diff > 0 THEN <<"Order count mismatch">> ELSE <<>>)
            \o (IF d.refunds_diff >= Tolerance THEN <<"Refund mismatch">> ELSE <<>>)

InitDrexel ==
    /\ script = "drexel_may_analysis"
    /\ pc = "csv_totals"
    /\ drexel_csv_orders \in DrexelOrderLists
    /\ response = None
    /\ requests_sent = 0
    /\ printed = <<>>
    /\ platform_data = None
    /\ total_discrepancies = 0
    /\ verdict = "none"
    /\ NoCleaned /\ NoPvc /\ NoCottman
    /\ exit_code = None

\* lines 10-38
CsvTotals ==
    /\ pc = "csv_totals"
    /\ totals' = DrexelCsvTotals(drexel_csv_orders)
    /\ printed' = printed \o <<"CSV EXPORT DATA">>
    /\ pc' = "request"
    /\ UNCHANGED <<script, platform_data, total_discrepancies, verdict, csv_file, df,
                   processing_orders, refunded_orders, total_rows, results, matches,
                   unique_locations, pvc_vars, cottman_vars, drexel_csv_orders,
                   response, requests_sent, exit_code>>

\* line 43: the one call of requests.get(); it returns or raises
Request ==
    /\ pc = "request"
    /\ \E r \in Responses : response' = r
    /\ requests_sent' = requests_sent + 1
    /\ pc' = "response"
    /\ UNCHANGED <<script, platform_data, total_discrepancies, verdict, cleaned_vars,
                   pvc_vars, cottman_vars, drexel_csv_orders, printed, exit_code>>

\* lines 44-77: status 200 and a body that response.json() parses
Comparison ==
    /\ pc = "response"
    /\ response.kind = "Response" /\ response.status_code = 200 /\ response.is_json
    /\ platform_data' = response.json
    /\ printed' = printed \o <<"PLATFORM DATA", "COMPARISON">>
                    \o DrexelVerdictLines(DrexelDiffs(totals, response.json))
    /\ exit_code' = 0
    /\ pc' = "exited"
    /\ UNCHANGED <<script, total_discrepancies, verdict, cleaned_vars, pvc_vars,
                   cottman_vars, drexel_csv_orders, response, requests_sent>>

\* line 45: status 200 and a body that is not JSON. response.json() raises
\* JSONDecodeError, which the except clause of line 81 does not name: the
\* exception leaves the function and the interpreter ends with status 1.
JsonDecodeError ==
    /\ pc = "response"
    /\ response.kind = "Response" /\ response.status_code = 200 /\ ~response.is_json
    /\ printed' = printed \o <<"Traceback">>
    /\ exit_code' = 1
    /\ pc' = "exited"
    /\ UNCHANGED <<script, platform_data, total_discrepancies, verdict, cleaned_vars,
                   pvc_vars, cottman_vars, drexel_csv_orders, response, requests_sent>>

\* lines 78-79: any other status
FailedStatus ==
    /\ pc = "response"
    /\ response.kind = "Response" /\ response.status_code # 200
    /\ printed' = printed \o <<"Failed to get platform data">>
    /\ exit_code' = 0
    /\ pc' = "exited"
    /\ UNCHANGED <<script, platform_data, total_discrepancies, verdict, cleaned_vars,
                   pvc_vars, cottman_vars, drexel_csv_orders, response, requests_sent>>

\* lines 81-92: requests.get() raised ConnectionError
ManualFallback ==
    /\ pc = "response"
    /\ response.kind = "ConnectionError"
    /\ printed' = printed \o <<"Cannot connect to platform API", "CSV DATA SUMMARY",
                               "ORDER DETAILS">>
                    \o [i \in DOMAIN drexel_csv_orders |-> "Order"]
    /\ exit_code' = 0
    /\ pc' = "exited"
    /\ UNCHANGED <<script, platform_data, total_discrepancies, verdict, cleaned_vars,
                   pvc_vars, cottman_vars, drexel_csv_orders, response, requests_sent>>

---------------------------------------------------------------------------
(* restore_routes.py *)

\* The exit statuses of cp the model draws from
CopyStatuses == {0, 1}

InitRestoreRoutes ==
    /\ script = "restore_routes"
    /\ pc = "copy"
    /\ platform_data = None
    /\ total_discrepancies = 0
    /\ verdict = "none"
    /\ NoCleaned /\ NoPvc /\ NoCottman /\ NoDrexel
    /\ exit_code = None

\* lines 6-18: subprocess.run([...], check=True) raises CalledProcessError when
\* cp ends with a status other than 0
RestoreRoutes ==
    /\ script = "restore_routes"
    /\ pc = "copy"
    /\ \E returncode \in CopyStatuses :
        IF returncode = 0
        THEN /\ printed' = <<"Restoring routes.ts file...", "Restored routes.ts from backup",
                             "Routes file restored successfully">>
             /\ exit_code' = 0
        ELSE /\ printed' = <<"Restoring routes.ts file...", "Error">>
             /\ exit_code' = 1
    /\ pc' = "exited"
    /\ UNCHANGED <<script, platform_data, total_discrepancies, verdict, cleaned_vars,
                   pvc_vars, cottman_vars, drexel_csv_orders, response, requests_sent>>

Init ==
    \/ InitCleaned
    \/ InitPlatformVsCsv
    \/ InitComprehensive
    \/ InitDrexel
    \/ InitRestoreRoutes

Next ==
    \/ ReadCsv
    \/ ToNumeric
    \/ DropNa
    \/ FilterKnown
    \/ Split
    \/ Analyze
    \/ Compare
    \/ Summary
    \/ CsvLocations
    \/ PlatformOnlyLocations
    \/ AnalysisResults
    \/ LoadAndClean
    \/ UniqueLocations
    \/ AnalyzeLocations
    \/ CsvTotals
    \/ Request
    \/ Comparison
    \/ JsonDecodeError
    \/ FailedStatus
    \/ ManualFallback
    \/ RestoreRoutes

Spec == Init /\ [][Next]_vars

\* The runs of the scripts that read an export, on exports with cells that are
\* no number; csv_analysis is run on such exports only.
InitCleanedDirty ==
    /\ script = "cleaned_csv_analysis"
    /\ pc = "read_csv"
    /\ csv_file \in DirtyCsvFiles
    /\ df = <<>>
    /\ processing_orders = <<>>
    /\ refunded_orders = <<>>
    /\ total_rows = 0
    /\ platform_data = None
    /\ results = None
    /\ matches = None
    /\ totals = None
    /\ total_discrepancies = 0
    /\ verdict = "none"
    /\ unique_locations = <<>>
    /\ NoPvc /\ NoCottman /\ NoDrexel
    /\ exit_code = None

InitComprehensiveDirty ==
    /\ script = "comprehensive_analysis"
    /\ pc = "load"
    /\ csv_file \in DirtyCsvFiles
    /\ df = <<>>
    /\ processing_orders = <<>>
    /\ refunded_orders = <<>>
    /\ total_rows = 0
    /\ platform_data = None
    /\ results = None
    /\ matches = None
    /\ totals = None
    /\ total_discrepancies = 0
    /\ verdict = "none"
    /\ unique_locations = <<>>
    /\ NoPvc /\ NoCottman /\ NoDrexel
    /\ exit_code = None

InitDirty == InitCleanedDirty \/ InitComprehensiveDirty \/ InitCsvAnalysis

NextDirty ==
    \/ ReadCsv
    \/ ToNumeric
    \/ DropNa
    \/ FilterKnown
    \/ Split
    \/ Analyze
    \/ Compare
    \/ Summary
    \/ LoadAndClean
    \/ UniqueLocations
    \/ AnalyzeLocations
    \/ CleanOrders
    \/ Metrics
    \/ CompareOrderIds

SpecDirty == InitDirty /\ [][NextDirty]_vars

---------------------------------------------------------------------------
(* Properties *)

IsCleaned == script = "cleaned_csv_analysis"
IsPvc == script = "platform_vs_csv_comparison"

\* The statements after which df is the output of normalize
Normalized == IsCleaned /\ pc \in {"split", "analyze", "compare", "summary", "done"}

\* The statements after which results is the output of aggregate
Aggregated == IsCleaned /\ pc \in {"compare", "summary", "done"}

Canonical == Range(location_mapping)

RecognizedStatuses == {Processing, Refunded}

\* The rows of a frame that satisfy Test, by index
Rows(frame, Test(_)) == {i \in DOMAIN frame : Test(frame[i])}

RECURSIVE SetSum(_, _)
SetSum(f, S) ==
    IF S = {} THEN 0
    ELSE LET x == CHOOSE y \in S : TRUE IN f[x] + SetSum(f, S \ {x})

\* The value of a numeric cell in a sum: a missing value adds nothing
Value(cell) == IF cell = NaN THEN 0 ELSE cell[1]

BucketCounts ==
    [location \in Canonical |->
        results[location].csv_processing_orders + results[location].csv_refunded_orders]

\* C1: after normalize and aggregate, the bucket counts (processing count plus
\* refunded count) summed over every canonical location equal the number of
\* normalized records whose status is Processing or Refunded; the run totals
\* printed at the end add up to the same number.
C1_BucketCountsPartitionRecords ==
    /\ Aggregated =>
        SetSum(BucketCounts, Canonical)
            = Cardinality(Rows(df, LAMBDA r : r.Status \in RecognizedStatuses))
    /\ (IsCleaned /\ pc = "done") =>
        totals.csv_total_processing_orders + totals.csv_total_refunded_orders
            = Cardinality(Rows(df, LAMBDA r : r.Status \in RecognizedStatuses))

\* Both canonical locations hold recognized records, beside a record of another
\* status, and the run has printed its totals.
C1_Witness ==
    /\ IsCleaned /\ pc = "done"
    /\ BucketCounts[Cottman] >= 1
    /\ BucketCounts[Ridge] >= 1
    /\ total_rows > BucketCounts[Cottman] + BucketCounts[Ridge]

\* What a run of cleaned_csv_analysis reports for an export and a reference table
CleanedReport(file, platform) ==
    LET frame == FilterKnownLocations(dropna([i \in DOMAIN file |-> CoerceRow(file[i])]))
        res == AnalyzeByLocation(Where(frame, "Status", Processing),
                                 Where(frame, "Status", Refunded), platform)
        m == [location \in DOMAIN res |-> LocationMatches(res[location])]
    IN  [total_rows |-> Len(frame), results |-> res, matches |-> m,
         totals |-> Totals(res),
         total_discrepancies |-> CountDiscrepancies(m, location_values)]

Reported ==
    [total_rows |-> total_rows, results |-> results, matches |-> matches,
     totals |-> totals, total_discrepancies |-> total_discrepancies]

IsAliasKey(location) == location \in DOMAIN location_mapping

\* C2: a record whose raw location is not a key of the alias table is in no row
\* of the output of normalize, and every count and sum the run reports is what it
\* reports for the export without those records.
C2_UnmappedLocationExcluded ==
    /\ Normalized =>
        /\ \A i \in DOMAIN df : df[i].Location \in Canonical
        /\ Len(df) = Cardinality(Rows(csv_file, LAMBDA r : IsAliasKey(r.Location)))
    /\ (IsCleaned /\ pc = "done") =>
        Reported = CleanedReport(SelectSeq(csv_file, LAMBDA r : IsAliasKey(r.Location)),
                                 platform_data)

\* The export holds a Processing record of a location that is no alias key and
\* one with a missing location, beside a record of an alias key; the run is over.
C2_Witness ==
    /\ IsCleaned /\ pc = "done"
    /\ \E i \in DOMAIN csv_file :
        csv_file[i].Location = Wilmington /\ csv_file[i].Status = Processing
    /\ \E i \in DOMAIN csv_file : csv_file[i].Location = NaNLocation
    /\ Len(df) = 1

CleanedDone == IsCleaned /\ pc = "done"
PvcDone == IsPvc /\ pc = "done"

\* cleaned_csv_analysis: the reference figures of every location are the computed ones
ReferenceIsComputed ==
    \A location \in Canonical :
        LET data == results[location]
        IN  /\ data.platform_processing_sales = data.csv_processing_sales
            /\ data.platform_processing_orders = data.csv_processing_orders
            /\ data.platform_refunds = data.csv_refunds
            /\ data.platform_refunded_orders = data.csv_refunded_orders

CleanedAllMatched ==
    /\ \A location \in Canonical : ~HasDiscrepancy(matches[location])
    /\ total_discrepancies = 0
    /\ verdict = "PERFECT MATCH"

PvcAllMatched ==
    /\ \A location \in DOMAIN csv_data : labels[location] = "PERFECT MATCH"
    /\ platform_only = {}
    /\ total_discrepancies = 0
    /\ verdict = "PERFECT ALIGNMENT"

\* No key of the table is renamed by the location mapping of the comparison
NoRenamedKey(table) == \A key \in DOMAIN table : PlatformLocation(key) = key

\* C3 as stated: comparing any table with itself reports no discrepancy for any
\* key and the all-matched verdict.
C3_CompareReflexive ==
    /\ (CleanedDone /\ ReferenceIsComputed) => CleanedAllMatched
    /\ (PvcDone /\ platform_data = csv_data) => PvcAllMatched

\* C3, amended: comparing a table with itself reports no discrepancy for any key
\* and the all-matched verdict, provided no key of the table is one the location
\* mapping renames ("Unknown Location" is looked up under the platform's name for
\* the main store).
C3_CompareReflexiveOnCanonicalKeys ==
    /\ (CleanedDone /\ ReferenceIsComputed) => CleanedAllMatched
    /\ (PvcDone /\ platform_data = csv_data /\ NoRenamedKey(csv_data)) => PvcAllMatched

\* A table of two keys, neither renamed, has been compared with itself.
C3_Witness ==
    /\ PvcDone
    /\ platform_data = csv_data
    /\ NoRenamedKey(csv_data)
    /\ Cardinality(DOMAIN csv_data) >= 2
    /\ Wilmington \in DOMAIN csv_data

\* The keys a run of platform_vs_csv_comparison reports as mismatching
PvcMismatchKeys(csv, platform) ==
    {key \in DOMAIN csv : ~IsMatchLabel(PvcLabel(csv, platform, key))}
        \cup PlatformOnly(csv, platform)

\* The figures of one location of cleaned_csv_analysis with the two sides swapped
Swapped(data) ==
    [csv_processing_sales |-> data.platform_processing_sales,
     csv_processing_orders |-> data.platform_processing_orders,
     csv_refunds |-> data.platform_refunds,
     csv_refunded_orders |-> data.platform_refunded_orders,
     platform_processing_sales |-> data.csv_processing_sales,
     platform_processing_orders |-> data.csv_processing_orders,
     platform_refunds |-> data.csv_refunds,
     platform_refunded_orders |-> data.csv_refunded_orders]

\* C4: swapping the computed and the reference table leaves the set of keys
\* reported as mismatching the same.
C4_MismatchKeysSymmetric ==
    /\ CleanedDone =>
        {location \in Canonical : HasDiscrepancy(matches[location])}
            = {location \in Canonical :
                    HasDiscrepancy(LocationMatches(Swapped(results[location])))}
    /\ PvcDone =>
        {key \in DOMAIN labels : ~IsMatchLabel(labels[key])} \cup platform_only
            = PvcMismatchKeys(platform_data, csv_data)

CountsDiffer(csv_stats, platform_stats) ==
    \/ csv_stats.orders # platform_stats.orders
    \/ csv_stats.processing # platform_stats.processing
    \/ csv_stats.refunded # platform_stats.refunded

\* C5: a location whose computed and reference values differ in a count field is
\* reported as a mismatch and is not counted among the matches, whatever its
\* monetary fields are.
C5_CountFieldsCompareExactly ==
    /\ CleanedDone =>
        \A location \in Canonical :
            LET data == results[location]
            IN  (\/ data.csv_processing_orders # data.platform_processing_orders
                 \/ data.csv_refunded_orders # data.platform_refunded_orders)
                    => HasDiscrepancy(matches[location])
    /\ PvcDone =>
        \A key \in DOMAIN csv_data :
            (/\ PlatformLocation(key) \in DOMAIN platform_data
             /\ CountsDiffer(csv_data[key], platform_data[PlatformLocation(key)]))
                => ~IsMatchLabel(labels[key])

\* The platform locations no CSV location is compared with
Uncompared(csv, platform) ==
    {p \in DOMAIN platform : \A key \in DOMAIN csv : PlatformLocation(key) # p}

\* The CSV locations whose platform name is no key of the platform table
NotFound(csv, platform) ==
    {key \in DOMAIN csv : PlatformLocation(key) \notin DOMAIN platform}

\* C6: a key present in only one of the two compared tables is reported as a
\* mismatch, whichever table it is missing from, and the run goes on to its
\* verdict with every such key counted as a discrepancy.
C6_OneSidedKeyIsMismatch ==
    PvcDone =>
        /\ \A key \in NotFound(csv_data, platform_data) :
                labels[key] = "NOT FOUND IN PLATFORM"
        /\ \A p \in Uncompared(csv_data, platform_data) : p \in platform_only
        /\ total_discrepancies >=
                Cardinality(NotFound(csv_data, platform_data))
                    + Cardinality(Uncompared(csv_data, platform_data))

MismatchedFields(m) ==
    {field \in {"sales_match", "orders_match", "refund_match", "refunded_orders_match"} :
        ~m[field]}

PvcFieldsDiffer(csv_stats, platform_stats) ==
    \/ CountsDiffer(csv_stats, platform_stats)
    \/ Abs(csv_stats.processing_sales - platform_stats.processing_sales) >= Tolerance
    \/ Abs(csv_stats.refund_amount - platform_stats.refund_amount) >= Tolerance

\* C8: the verdict is the all-matched one exactly when every compared location
\* matches on every compared field.
C8_VerdictIffNoDiscrepancy ==
    /\ CleanedDone =>
        (verdict = "PERFECT MATCH"
            <=> \A location \in Canonical : MismatchedFields(matches[location]) = {})
    /\ PvcDone =>
        (verdict = "PERFECT ALIGNMENT"
            <=> /\ NotFound(csv_data, platform_data) = {}
                /\ platform_only = {}
                /\ \A key \in DOMAIN csv_data :
                    ~PvcFieldsDiffer(csv_data[key], platform_data[PlatformLocation(key)]))

IsComprehensive == script = "comprehensive_analysis"
ComprehensiveDone == IsComprehensive /\ pc = "finished"

IsRecognized(r) == r.Status \in RecognizedStatuses

\* The export without its records of a status other than Processing and Refunded
RecognizedOnly(file) == SelectSeq(file, IsRecognized)

\* df_clean of comprehensive_analysis for an export
CleanFrame(file) == [i \in DOMAIN file |-> CleanRow(file[i])]

\* The four bucket figures comprehensive_analysis prints for a location
Buckets(metrics) ==
    [processing_orders |-> metrics.processing_orders,
     refunded_orders |-> metrics.refunded_orders,
     processing_sales |-> metrics.processing_sales,
     refund_amount |-> metrics.refund_amount]

\* What comprehensive_analysis prints for an export
ComprehensiveReport(file) ==
    LET frame == CleanFrame(file)
        locations == Unique(Column(frame, "Location"))
    IN  [results |-> [location \in Range(locations) |-> LocationMetrics(frame, location)],
         totals |-> RunTotals(frame, locations)]

TotalAmounts == [i \in DOMAIN df |-> Value(df[i].Total_Amount)]
NetAmounts == [i \in DOMAIN df |-> Value(df[i].Total_Refund)]

RowsOf(location, status) ==
    Rows(df, LAMBDA r : r.Location = location /\ r.Status = status)

\* C10 as stated: per canonical location the processing bucket holds the number
\* of the location's Processing rows and the sum of their selected amount, and
\* the refunded bucket the number of its Refunded rows and the sum of theirs.
C10_BucketsAreCountAndSum ==
    /\ Aggregated =>
        \A location \in Canonical :
            LET data == results[location]
            IN  /\ data.csv_processing_orders
                    = Cardinality(RowsOf(location, Processing))
                /\ data.csv_processing_sales
                    = SetSum(TotalAmounts, RowsOf(location, Processing))
                /\ data.csv_refunded_orders = Cardinality(RowsOf(location, Refunded))
                /\ data.csv_refunds = SetSum(NetAmounts, RowsOf(location, Refunded))
    /\ ComprehensiveDone =>
        \A location \in DOMAIN results :
            LET data == results[location]
            IN  /\ data.processing_orders = Cardinality(RowsOf(location, Processing))
                /\ data.processing_sales
                    = SetSum(TotalAmounts, RowsOf(location, Processing))
                /\ data.refunded_orders = Cardinality(RowsOf(location, Refunded))
                /\ data.refund_amount = SetSum(TotalAmounts, RowsOf(location, Refunded))

\* C10, amended: as stated, except that where the amount selected for the
\* refunded bucket is the signed Total (- Refund) column (cleaned_csv_analysis)
\* the bucket holds the absolute value of the sum.
C10_BucketsAreCountAndAbsSum ==
    /\ Aggregated =>
        \A location \in Canonical :
            LET data == results[location]
            IN  /\ data.csv_processing_orders
                    = Cardinality(RowsOf(location, Processing))
                /\ data.csv_processing_sales
                    = SetSum(TotalAmounts, RowsOf(location, Processing))
                /\ data.csv_refunded_orders = Cardinality(RowsOf(location, Refunded))
                /\ data.csv_refunds
                    = Abs(SetSum(NetAmounts, RowsOf(location, Refunded)))
    /\ ComprehensiveDone =>
        \A location \in DOMAIN results :
            LET data == results[location]
            IN  /\ data.processing_orders = Cardinality(RowsOf(location, Processing))
                /\ data.processing_sales
                    = SetSum(TotalAmounts, RowsOf(location, Processing))
                /\ data.refunded_orders = Cardinality(RowsOf(location, Refunded))
                /\ data.refund_amount = SetSum(TotalAmounts, RowsOf(location, Refunded))

\* Two Processing rows of 10.00 and 20.00 and one Refunded row of -5.00 at one
\* location: processing {count 2, sum 30.00}, refunded {count 1, sum 5.00}.
C10_Witness ==
    /\ CleanedDone
    /\ Len(df) = 3
    /\ results[Cottman].csv_processing_orders = 2
    /\ results[Cottman].csv_processing_sales = 3000
    /\ results[Cottman].csv_refunded_orders = 1
    /\ results[Cottman].csv_refunds = 500

IsDrexel == script = "drexel_may_analysis"
DrexelExited == IsDrexel /\ pc = "exited"

Printed(line) == \E i \in DOMAIN printed : printed[i] = line

\* The three outcomes of a run of drexel_may_analysis, as what it has printed
ComparedWithVerdict ==
    /\ Printed("COMPARISON")
    /\ Printed("PERFECT MATCH") \/ Printed("DISCREPANCIES FOUND")

StatusPrinted == Printed("Failed to get platform data")

ManualReport == Printed("Cannot connect to platform API")

\* C11: a run of the platform-fetch variant issues its request at most once and
\* ends in exactly one of three outcomes: on status 200 the comparison and a
\* verdict, on any other status the status printed and no comparison, on a
\* connection error the manual-only report and no comparison.
C11_OneOfThreeOutcomes ==
    /\ requests_sent <= 1
    /\ DrexelExited =>
        /\ (response.kind = "Response" /\ response.status_code = 200)
                => (ComparedWithVerdict /\ ~StatusPrinted /\ ~ManualReport)
        /\ (response.kind = "Response" /\ response.status_code # 200)
                => (StatusPrinted /\ ~Printed("COMPARISON") /\ ~ManualReport)
        /\ response.kind = "ConnectionError"
                => (ManualReport /\ ~Printed("COMPARISON") /\ ~StatusPrinted)

\* The cells of the export that parse as a number, as what they add to a sum
ParsedCell(text) == IF text \in {"10.00", "20.00", "-5.00"} THEN Cents[text] ELSE 0

FileTotalAmounts == [i \in DOMAIN csv_file |-> ParsedCell(csv_file[i].Total_Amount)]
FileNetAmounts == [i \in DOMAIN csv_file |-> ParsedCell(csv_file[i].Total_Refund)]

FileRowsOf(location, status) ==
    Rows(csv_file, LAMBDA r : r.Location = location /\ r.Status = status)

\* C12: a cell of an amount column that is no number is a missing value after
\* the load, the run ends without an exception, and every sum the run reports is
\* the sum of the cells that are numbers: the row still counts as an order.
C12_UnparsedAmountLeftOutOfSums ==
    /\ (IsCleaned /\ pc = "dropna") =>
        \A i \in DOMAIN df :
            /\ df[i].Total_Amount = NaN <=> csv_file[i].Total_Amount = "$10.00"
            /\ df[i].Total_Refund = NaN <=> csv_file[i].Total_Refund = "$10.00"
    /\ CleanedDone =>
        /\ exit_code = 0
        /\ \A location \in Canonical :
            LET data == results[location]
            IN  /\ data.csv_processing_sales
                    = SetSum(FileTotalAmounts, FileRowsOf(location, Processing))
                /\ data.csv_refunds
                    = Abs(SetSum(FileNetAmounts, FileRowsOf(location, Refunded)))
                /\ data.csv_processing_orders
                    = Cardinality(FileRowsOf(location, Processing))
        /\ totals.csv_total_processing_sales
            = SetSum(FileTotalAmounts, Rows(csv_file, LAMBDA r : r.Status = Processing))
    /\ ComprehensiveDone =>
        /\ exit_code = 0
        /\ \A location \in DOMAIN results :
            LET data == results[location]
            IN  /\ data.processing_sales
                    = SetSum(FileTotalAmounts, FileRowsOf(location, Processing))
                /\ data.refund_amount
                    = SetSum(FileTotalAmounts, FileRowsOf(location, Refunded))
                /\ data.total_orders
                    = Cardinality(Rows(csv_file, LAMBDA r : r.Location = location))
        /\ totals.total_csv_sales
            = SetSum(FileTotalAmounts, Rows(csv_file, LAMBDA r : r.Status = Processing))
        /\ totals.total_csv_refunds
            = SetSum(FileTotalAmounts, Rows(csv_file, LAMBDA r : r.Status = Refunded))

\* Two Processing rows of one location, the Total Amount of one being "$10.00"
\* and of the other 10.00, and a Refunded row whose Total (- Refund) is
\* "$10.00": the run is over with sales 10.00 over 2 orders and refunds 0.00.
C12_Witness ==
    /\ CleanedDone
    /\ \E i \in DOMAIN csv_file :
        /\ csv_file[i].Location = Cottman /\ csv_file[i].Status = Processing
        /\ csv_file[i].Total_Amount = "$10.00"
    /\ \E i \in DOMAIN csv_file :
        /\ csv_file[i].Location = Cottman /\ csv_file[i].Status = Refunded
        /\ csv_file[i].Total_Refund = "$10.00"
    /\ results[Cottman].csv_processing_orders = 2
    /\ results[Cottman].csv_processing_sales = 1000
    /\ results[Cottman].csv_refunded_orders = 1
    /\ results[Cottman].csv_refunds = 0
    /\ exit_code = 0

\* The process of the run has ended
Exited == pc \in {"done", "finished", "exited"}

IsRestoreRoutes == script = "restore_routes"

\* C13: every run of an analysis script ends with exit status 0, whatever it
\* finds; the only exit status other than 0 is the 1 of restore_routes after a
\* failed copy.
C13_AnalysisRunsExitZero ==
    Exited =>
        \/ exit_code = 0
        \/ IsRestoreRoutes /\ exit_code = 1 /\ Printed("Error")

\* The signed sum of Total (- Refund) over the Refunded rows of a location
SignedRefunds(location) == SetSum(NetAmounts, RowsOf(location, Refunded))

\* C14: in cleaned_csv_analysis the refund total of a location is the absolute
\* value of the signed sum of Total (- Refund) over its Refunded rows: the sum
\* itself when that is positive, its negation when it is negative, and so never
\* negative; nor is the run total of the refunds.
C14_RefundTotalIsAbsoluteValue ==
    /\ Aggregated =>
        \A location \in Canonical :
            LET refunds == results[location].csv_refunds
                signed == SignedRefunds(location)
            IN  /\ refunds >= 0
                /\ signed >= 0 => refunds = signed
                /\ signed < 0 => refunds = 0 - signed
    /\ CleanedDone => totals.csv_total_refunds >= 0

\* A location with two Refunded rows of -5.00, reported as refunds of 10.00, and
\* another whose one Refunded row of 10.00 is reported as 10.00.
C14_Witness ==
    /\ CleanedDone
    /\ SignedRefunds(Cottman) = 0 - 1000
    /\ results[Cottman].csv_refunds = 1000
    /\ SignedRefunds(Ridge) = 1000
    /\ results[Ridge].csv_refunds = 1000

\* The platform locations that are neither a target of the location mapping
\* nor a key of the CSV table
PlatformOnlyLocationsOf(csv, platform) ==
    DOMAIN platform \ (Range(pvc_location_mapping) \cup DOMAIN csv)

\* C15: in platform_vs_csv_comparison, after the loop over the CSV locations
\* the two counters add up to the number of CSV locations, and at the end of the
\* run to the number of CSV locations plus the number of platform locations that
\* are neither a mapping target nor a CSV key; the discrepancies are the CSV
\* locations not counted as a match and those platform locations.
C15_CountersAddUpToLocations ==
    /\ (IsPvc /\ pc \in {"platform_only", "results", "done"}) =>
        perfect_matches <= Cardinality(DOMAIN csv_data)
    /\ (IsPvc /\ pc = "platform_only") =>
        perfect_matches + total_discrepancies = Cardinality(DOMAIN csv_data)
    /\ (IsPvc /\ pc \in {"results", "done"}) =>
        /\ perfect_matches + total_discrepancies
            = Cardinality(DOMAIN csv_data)
                + Cardinality(PlatformOnlyLocationsOf(csv_data, platform_data))
        /\ total_discrepancies
            = Cardinality({key \in DOMAIN csv_data : ~IsMatchLabel(labels[key])})
                + Cardinality(PlatformOnlyLocationsOf(csv_data, platform_data))

\* Three CSV locations, one matched, one with a discrepancy and one not found in
\* the platform table, and one location the platform table alone holds: the
\* counters add up to 4.
C15_Witness ==
    /\ PvcDone
    /\ Cardinality(DOMAIN csv_data) = 3
    /\ \E key \in DOMAIN csv_data : labels[key] = "PERFECT MATCH"
    /\ \E key \in DOMAIN csv_data : labels[key] = "DISCREPANCY DETECTED"
    /\ \E key \in DOMAIN csv_data : labels[key] = "NOT FOUND IN PLATFORM"
    /\ Cardinality(platform_only) = 1
    /\ perfect_matches = 1
    /\ total_discrepancies = 3

GroupSizes == [location \in DOMAIN results |-> results[location].total_orders]

UnknownGroups ==
    {location \in DOMAIN results : results[location].location_name = "UNKNOWN LOCATION"}

MissingLocationRows == Rows(csv_file, LAMBDA r : r.Location = NaNLocation)

\* C16: in comprehensive_analysis the location groups partition the rows of the
\* export: every location of a row has its group, the group sizes add up to the
\* number of rows, which is the reported total order count; the rows with a
\* missing location are one group, UNKNOWN LOCATION, and there is no such group
\* without them; in a group the processing and the refunded orders together are
\* no more than its orders.
C16_LocationGroupsPartitionRows ==
    ComprehensiveDone =>
        /\ \A i \in DOMAIN csv_file : csv_file[i].Location \in DOMAIN results
        /\ \A location \in DOMAIN results :
            /\ GroupSizes[location]
                = Cardinality(Rows(csv_file, LAMBDA r : r.Location = location))
            /\ GroupSizes[location] >= 1
            /\ results[location].processing_orders + results[location].refunded_orders
                <= GroupSizes[location]
        /\ SetSum(GroupSizes, DOMAIN results) = Len(csv_file)
        /\ totals.total_csv_orders = Len(csv_file)
        /\ Cardinality(UnknownGroups) = (IF MissingLocationRows = {} THEN 0 ELSE 1)
        /\ \A location \in UnknownGroups :
            GroupSizes[location] = Cardinality(MissingLocationRows)

\* Two rows without a location, one of them Cancelled, and a Processing row of
\* Cottman: the groups UNKNOWN LOCATION of 2 orders and Cottman of 1, 3 in all.
C16_Witness ==
    /\ ComprehensiveDone
    /\ Cardinality(MissingLocationRows) = 2
    /\ \E i \in MissingLocationRows : csv_file[i].Status = Cancelled
    /\ \E location \in UnknownGroups :
        /\ results[location].total_orders = 2
        /\ results[location].processing_orders + results[location].refunded_orders = 1
    /\ Cottman \in DOMAIN results
    /\ results[Cottman].total_orders = 1
    /\ totals.total_csv_orders = 3

DetailLines == {"Sales mismatch", "Order count mismatch", "Refund mismatch"}

\* The positions of a line among the lines printed
Positions(line) == {i \in DOMAIN printed : printed[i] = line}

DetailPositions == {i \in DOMAIN printed : printed[i] \in DetailLines}

\* C17: in drexel_may_analysis, on a 200 response exactly one of PERFECT MATCH
\* and DISCREPANCIES FOUND is printed; after DISCREPANCIES FOUND at least one
\* detail line (sales, order count or refund mismatch) is printed, and with
\* PERFECT MATCH none.
C17_OneVerdictAndItsDetails ==
    (DrexelExited /\ response.kind = "Response" /\ response.status_code = 200) =>
        /\ Cardinality(Positions("PERFECT MATCH"))
            + Cardinality(Positions("DISCREPANCIES FOUND")) = 1
        /\ \A i \in Positions("DISCREPANCIES FOUND") :
            \E j \in DetailPositions : j > i
        /\ Positions("PERFECT MATCH") # {} => DetailPositions = {}

IsCsvAnalysis == script = "csv_analysis"
CsvAnalysisDone == IsCsvAnalysis /\ pc = "exited"

\* The rows of the export whose Total Amount is below 0 or is no number
IsRemovedRow(r) == r.Total_Amount \in {"-5.00", "$10.00"}

\* The Cottman rows of the export that are left, by index
KeptRows == Rows(csv_file, LAMBDA r : r.Location \in CottmanNames /\ ~IsRemovedRow(r))

KeptWith(status) == {i \in KeptRows : csv_file[i].Status = status}

FileRefundAmounts == [i \in DOMAIN csv_file |-> ParsedCell(csv_file[i].Refund_Amount)]

\* C18: in csv_analysis a row whose Total Amount is below 0 or is no number is
\* in no metric: the total, processing and refunded counts, every sum and the
\* set of order IDs compared with the platform's are those of the other Cottman
\* rows alone.
C18_NegativeOrUnparsedRowsRemoved ==
    /\ (IsCsvAnalysis /\ pc \in {"metrics", "order_ids", "exited"}) =>
        /\ Len(cottman_orders_clean) = Cardinality(KeptRows)
        /\ \A i \in DOMAIN cottman_orders_clean :
            /\ cottman_orders_clean[i].Total_Amount # NaN
            /\ cottman_orders_clean[i].Total_Amount[1] >= 0
    /\ (IsCsvAnalysis /\ pc \in {"order_ids", "exited"}) =>
        /\ results.total_orders = Cardinality(KeptRows)
        /\ results.processing_count = Cardinality(KeptWith(Processing))
        /\ results.refund_count = Cardinality(KeptWith(Refunded))
        /\ results.total_sales = SetSum(FileNetAmounts, KeptRows)
        /\ results.processing_sales = SetSum(FileNetAmounts, KeptWith(Processing))
        /\ results.refund_amount = SetSum(FileRefundAmounts, KeptWith(Refunded))
    /\ CsvAnalysisDone =>
        /\ csv_order_ids = {astype_str[csv_file[i].Order_ID] : i \in KeptRows}
        /\ missing_in_csv
            = {id \in platform_order_ids :
                \A i \in KeptRows : astype_str[csv_file[i].Order_ID] # id}
        /\ extra_in_csv
            = {astype_str[csv_file[i].Order_ID] : i \in KeptRows} \ platform_order_ids

\* A Cottman row of -5.00 and one of "$10.00", both of order 99999, beside a
\* Refunded Cottman row of 20.00 of order 26004: one order, sales 10.00, refunds
\* 10.00, and 99999 is not among the order IDs.
C18_Witness ==
    /\ CsvAnalysisDone
    /\ \E i \in DOMAIN csv_file :
        /\ csv_file[i].Location = Cottman /\ csv_file[i].Total_Amount = "-5.00"
        /\ csv_file[i].Order_ID = 99999
    /\ \E i \in DOMAIN csv_file :
        /\ csv_file[i].Location = Cottman /\ csv_file[i].Total_Amount = "$10.00"
        /\ csv_file[i].Order_ID = 99999
    /\ results.total_orders = 1
    /\ results.refund_count = 1
    /\ results.total_sales = 1000
    /\ results.refund_amount = 1000
    /\ csv_order_ids = {"26004"}
    /\ extra_in_csv = {}
    /\ missing_in_csv = {"26014"}

====
